---- MODULE Spec2Model ----
(***************************************************************************)
(* A model of the euler vector / TRS kernel (src/src/vec.rs, src/src/trs.rs).*)
(*                                                                         *)
(* Scalars are finite, integer-valued IEEE-754 numbers, held as the integer *)
(* they denote.  An f32 keeps a 24-bit significand: every arithmetic result *)
(* and every `as f32` cast is rounded to the nearest representable value,   *)
(* ties to even.  An f64 keeps 53 bits, so every integer the model can hold *)
(* (below 2^31) is an exact f64 and f64 arithmetic on them is exact.        *)
(* Vectors are records with the struct's named fields, arrays are           *)
(* sequences, so that the array conversions are real conversions.           *)
(***************************************************************************)
EXTENDS Integers, Sequences, FiniteSets, TLC

VARIABLES op, ty, args, out

vars == <<op, ty, args, out>>

\* ------------------------------------------------------------------ bounds

\* Small components range over -MaxSmall .. MaxSmall.
MaxSmall == 1

\* ------------------------------------------------------------ scalar kernel

Abs(x) == IF x < 0 THEN -x ELSE x

Sign(x) == IF x < 0 THEN -1 ELSE 1

Pow2(k) == 2 ^ k

\* floor(log2(x)) for x >= 1
RECURSIVE Log2(_)
Log2(x) == IF x < 2 THEN 0 ELSE 1 + Log2(x \div 2)

\* x rounded to the nearest integer with an m-bit significand, ties to even.
RoundTo(m, x) ==
    LET ax == Abs(x)
    IN  IF ax < Pow2(m) THEN x
        ELSE LET u    == Pow2(Log2(ax) - (m - 1))
                 q    == ax \div u
                 r    == ax % u
                 half == u \div 2
                 rq   == IF r > half \/ (r = half /\ q % 2 = 1) THEN q + 1 ELSE q
             IN  Sign(x) * rq * u

\* A narrowing cast that keeps only 16 significand bits (a wrong target width).
AsF32_Narrow16(x) == RoundTo(16, x)

\* `x as f32`
AsF32(x) == RoundTo(24, x)

\* `x as f64`: every f32 is an f64, and so is every integer below 2^53.
AsF64(x) == x

\* The result of an arithmetic operation whose exact value is x, in base type b.
Round(b, x) == IF b = "f32" THEN AsF32(x) ELSE AsF64(x)

\* ------------------------------------------------------------- vector types

TYPES == {"Vec2", "Vec3", "Vec4", "DVec2", "DVec3", "DVec4"}

\* $base of each impl_vector! instance
Base(t) == IF t \in {"Vec2", "Vec3", "Vec4"} THEN "f32" ELSE "f64"

\* the length of $array of each impl_vector! instance
Dim(t) == CASE t \in {"Vec2", "DVec2"} -> 2
            [] t \in {"Vec3", "DVec3"} -> 3
            [] t \in {"Vec4", "DVec4"} -> 4

\* the struct's fields in declaration order (#[repr(C)])
Fields(t) == SubSeq(<<"x", "y", "z", "w">>, 1, Dim(t))

\* the other-precision type of the same dimension
Sibling(t) == CASE t = "Vec2" -> "DVec2" [] t = "DVec2" -> "Vec2"
                [] t = "Vec3" -> "DVec3" [] t = "DVec3" -> "Vec3"
                [] t = "Vec4" -> "DVec4" [] t = "DVec4" -> "Vec4"

\* ---- Vec2
Vec2_new(x, y) == [x |-> x, y |-> y]

Vec2_zero == [x |-> 0, y |-> 0]

Vec2_from_f32(arg) == Vec2_new(arg, arg)

Vec2_from_f64(arg) == Vec2_from_f32(AsF32(arg))

Vec2_from_DVec2(arg) == Vec2_new(AsF32(arg.x), AsF32(arg.y))

\* ---- Vec3
Vec3_new(x, y, z) == [x |-> x, y |-> y, z |-> z]

Vec3_zero == [x |-> 0, y |-> 0, z |-> 0]

\* A broadcast that leaves the last component at its default.
Vec3_from_f32_DropZ(arg) == Vec3_new(arg, arg, 0)

Vec3_from_f32(arg) == Vec3_new(arg, arg, arg)

Vec3_from_f64(arg) == Vec3_from_f32(AsF32(arg))

Vec3_from_DVec3(arg) == Vec3_new(AsF32(arg.x), AsF32(arg.y), AsF32(arg.z))

\* A lift that puts the trailing scalar first.
Vec3_from_Vec2_f32_Front(v, a) == Vec3_new(a, v.x, v.y)

Vec3_from_Vec2_f32(v, a) == Vec3_new(v.x, v.y, a)

\* ---- Vec4
Vec4_new(x, y, z, w) == [x |-> x, y |-> y, z |-> z, w |-> w]

Vec4_zero == [x |-> 0, y |-> 0, z |-> 0, w |-> 0]

Vec4_from_f32(arg) == Vec4_new(arg, arg, arg, arg)

Vec4_from_f64(arg) == Vec4_from_f32(AsF32(arg))

Vec4_from_DVec4(arg) ==
    Vec4_new(AsF32(arg.x), AsF32(arg.y), AsF32(arg.z), AsF32(arg.w))

Vec4_from_Vec2_f32_f32(v, a, b) == Vec4_new(v.x, v.y, a, b)

Vec4_from_Vec3_f32(v, a) == Vec4_new(v.x, v.y, v.z, a)

\* ---- DVec2
DVec2_new(x, y) == [x |-> x, y |-> y]

DVec2_zero == [x |-> 0, y |-> 0]

DVec2_from_f64(arg) == DVec2_new(arg, arg)

DVec2_from_f32(arg) == DVec2_from_f64(AsF64(arg))

DVec2_from_Vec2(arg) == DVec2_new(AsF64(arg.x), AsF64(arg.y))

\* ---- DVec3
DVec3_new(x, y, z) == [x |-> x, y |-> y, z |-> z]

DVec3_zero == [x |-> 0, y |-> 0, z |-> 0]

DVec3_from_f64(arg) == DVec3_new(arg, arg, arg)

DVec3_from_f32(arg) == DVec3_from_f64(AsF64(arg))

DVec3_from_Vec3(arg) == DVec3_new(AsF64(arg.x), AsF64(arg.y), AsF64(arg.z))

DVec3_from_DVec2_f64(v, a) == DVec3_new(v.x, v.y, a)

\* ---- DVec4
DVec4_new(x, y, z, w) == [x |-> x, y |-> y, z |-> z, w |-> w]

DVec4_zero == [x |-> 0, y |-> 0, z |-> 0, w |-> 0]

DVec4_from_f64(arg) == DVec4_new(arg, arg, arg, arg)

DVec4_from_f32(arg) == DVec4_from_f64(AsF64(arg))

DVec4_from_Vec4(arg) ==
    DVec4_new(AsF64(arg.x), AsF64(arg.y), AsF64(arg.z), AsF64(arg.w))

DVec4_from_DVec2_f64_f64(v, a, b) == DVec4_new(v.x, v.y, a, b)

DVec4_from_DVec3_f64(v, a) == DVec4_new(v.x, v.y, v.z, a)

\* ---- the same conversions, selected by the target type t
Zero(t) == CASE t = "Vec2" -> Vec2_zero [] t = "Vec3" -> Vec3_zero
             [] t = "Vec4" -> Vec4_zero [] t = "DVec2" -> DVec2_zero
             [] t = "DVec3" -> DVec3_zero [] t = "DVec4" -> DVec4_zero

From_f32(t, s) ==
    CASE t = "Vec2" -> Vec2_from_f32(s) [] t = "Vec3" -> Vec3_from_f32(s)
      [] t = "Vec4" -> Vec4_from_f32(s) [] t = "DVec2" -> DVec2_from_f32(s)
      [] t = "DVec3" -> DVec3_from_f32(s) [] t = "DVec4" -> DVec4_from_f32(s)

From_f64(t, s) ==
    CASE t = "Vec2" -> Vec2_from_f64(s) [] t = "Vec3" -> Vec3_from_f64(s)
      [] t = "Vec4" -> Vec4_from_f64(s) [] t = "DVec2" -> DVec2_from_f64(s)
      [] t = "DVec3" -> DVec3_from_f64(s) [] t = "DVec4" -> DVec4_from_f64(s)

\* From<sibling> for t
From_sibling(t, v) ==
    CASE t = "Vec2" -> Vec2_from_DVec2(v) [] t = "Vec3" -> Vec3_from_DVec3(v)
      [] t = "Vec4" -> Vec4_from_DVec4(v) [] t = "DVec2" -> DVec2_from_Vec2(v)
      [] t = "DVec3" -> DVec3_from_Vec3(v) [] t = "DVec4" -> DVec4_from_Vec4(v)

\* ------------------------------------------------- impl_vector!: raw arrays

\* An array conversion that reverses the element order.
as_ref_Reversed(t, v) == [i \in 1..Dim(t) |-> v[Fields(t)[Dim(t) + 1 - i]]]

\* AsRef<$array>: the struct read as an array, fields in declaration order.
as_ref(t, v) == [i \in 1..Dim(t) |-> v[Fields(t)[i]]]

\* Into<$array>: the same reinterpretation, by value.
into_array(t, v) == as_ref(t, v)

\* From<$array>: the array read as the struct.
from_array(t, array) ==
    [f \in {Fields(t)[i] : i \in 1..Dim(t)} |->
        array[CASE f = "x" -> 1 [] f = "y" -> 2 [] f = "z" -> 3 [] f = "w" -> 4]]

\* -------------------------------------------- impl_vector!: arithmetic

\* cgmath's `a + b` on $inner, with the operands swapped and subtracted.
inner_add_AsSub(b, u, v) == [i \in DOMAIN u |-> Round(b, u[i] - v[i])]

\* cgmath's `a + b` on $inner: one rounded addition per component.
inner_add(b, u, v) == [i \in DOMAIN u |-> Round(b, u[i] + v[i])]

\* cgmath's sum of the elements, left to right.
RECURSIVE inner_sum(_, _, _)
inner_sum(b, u, n) ==
    IF n = 1 THEN u[1] ELSE Round(b, inner_sum(b, u, n - 1) + u[n])

\* cgmath's InnerSpace::dot on $inner: the elementwise products, summed.
inner_dot(b, u, v) ==
    inner_sum(b, [i \in DOMAIN u |-> Round(b, u[i] * v[i])], Len(u))

\* cgmath's Vector3::cross with the operands of every difference swapped.
inner_cross_Negated(b, u, v) ==
    << Round(b, Round(b, u[3] * v[2]) - Round(b, u[2] * v[3])),
       Round(b, Round(b, u[1] * v[3]) - Round(b, u[3] * v[1])),
       Round(b, Round(b, u[2] * v[1]) - Round(b, u[1] * v[2])) >>

\* cgmath's Vector3::cross.
inner_cross(b, u, v) ==
    << Round(b, Round(b, u[2] * v[3]) - Round(b, u[3] * v[2])),
       Round(b, Round(b, u[3] * v[1]) - Round(b, u[1] * v[3])),
       Round(b, Round(b, u[1] * v[2]) - Round(b, u[2] * v[1])) >>

dot(t, self, rhs) == inner_dot(Base(t), as_ref(t, self), as_ref(t, rhs))

add(t, self, rhs) ==
    from_array(t, inner_add(Base(t), as_ref(t, self), as_ref(t, rhs)))

\* Vec3::cross / DVec3::cross (t is "Vec3" or "DVec3")
cross(t, self, rhs) ==
    from_array(t, inner_cross(Base(t), as_ref(t, self), as_ref(t, rhs)))

\* ------------------------------------- impl_vector!: approximate equality

\* approx's relative_eq on a scalar of base type b
scalar_relative_eq(b, x, y, epsilon, max_relative) ==
    \/ x = y
    \/ LET abs_diff == Abs(Round(b, x - y))
           largest  == IF Abs(y) > Abs(x) THEN Abs(y) ELSE Abs(x)
       IN  \/ abs_diff <= epsilon
           \/ abs_diff <= Round(b, largest * max_relative)

\* The bit pattern of the non-negative f32 x, as an integer.
Bits32(x) ==
    IF x = 0 THEN 0
    ELSE LET e == Log2(x)
         IN  (e + 127) * Pow2(23)
               + (IF e <= 23 THEN (x - Pow2(e)) * Pow2(23 - e)
                             ELSE (x - Pow2(e)) \div Pow2(e - 23))

\* The distance between x and y of one sign in representable steps.  Two
\* distinct integers below 2^31 are at least 2^22 f64 steps apart; their
\* distance is held at 2^22, above every step count the model passes.
UlpsApart(b, x, y) ==
    IF b = "f32" THEN Abs(Bits32(Abs(x)) - Bits32(Abs(y)))
    ELSE IF x = y THEN 0 ELSE Pow2(22)

\* approx's ulps_eq on a scalar of base type b
scalar_ulps_eq(b, x, y, epsilon, max_ulps) ==
    \/ Abs(Round(b, x - y)) <= epsilon
    \/ /\ Sign(x) = Sign(y)
       /\ UlpsApart(b, x, y) <= max_ulps

\* relative_eq of $self: cgmath's relative_eq on $inner, every element pair
relative_eq(t, self, other, epsilon, max_relative) ==
    LET a == as_ref(t, self)
        b == as_ref(t, other)
    IN  \A i \in 1..Dim(t) :
            scalar_relative_eq(Base(t), a[i], b[i], epsilon, max_relative)

\* ulps_eq of $self: cgmath's ulps_eq on $inner, every element pair
ulps_eq(t, self, other, epsilon, max_ulps) ==
    LET a == as_ref(t, self)
        b == as_ref(t, other)
    IN  \A i \in 1..Dim(t) :
            scalar_ulps_eq(Base(t), a[i], b[i], epsilon, max_ulps)

\* The methods `impl ApproxEq for $self` defines.
vector_approx_methods ==
    {"default_epsilon", "default_max_relative", "default_max_ulps",
     "relative_eq", "ulps_eq"}

\* What a call evaluates to: the value it returns, or no value at all when
\* the build rejects the call.
Returned(v) == [ok |-> TRUE, value |-> v]

Rejected(why) == [ok |-> FALSE, why |-> why]

\* A call `v.abs_diff_eq(&other, tolerances...)` on a vector of type t.
vector_abs_diff_eq(t, self, other, tolerances) ==
    IF "abs_diff_eq" \in vector_approx_methods /\ Len(tolerances) = 1
    THEN Returned(\A i \in 1..Dim(t) :
                     Abs(Round(Base(t), as_ref(t, self)[i] - as_ref(t, other)[i]))
                         <= tolerances[1])
    ELSE Rejected("no method abs_diff_eq(other, epsilon) on the vector type")

\* ---------------------------------------------------- cgmath 4x4 matrices
\* A Matrix4 is its four columns, each of four rows.

Matrix4_from_translation(v) ==
    << <<1, 0, 0, 0>>, <<0, 1, 0, 0>>, <<0, 0, 1, 0>>, <<v.x, v.y, v.z, 1>> >>

Matrix4_from_nonuniform_scale(x, y, z) ==
    << <<x, 0, 0, 0>>, <<0, y, 0, 0>>, <<0, 0, z, 0>>, <<0, 0, 0, 1>> >>

\* Matrix4::from(Quaternion::new(s, x, y, z))
Matrix4_from_quaternion(b, s, x, y, z) ==
    LET x2  == Round(b, x + x)
        y2  == Round(b, y + y)
        z2  == Round(b, z + z)
        xx2 == Round(b, x2 * x)
        xy2 == Round(b, x2 * y)
        xz2 == Round(b, x2 * z)
        yy2 == Round(b, y2 * y)
        yz2 == Round(b, y2 * z)
        zz2 == Round(b, z2 * z)
        sy2 == Round(b, y2 * s)
        sz2 == Round(b, z2 * s)
        sx2 == Round(b, x2 * s)
    IN  << << Round(b, Round(b, 1 - yy2) - zz2), Round(b, xy2 + sz2),
              Round(b, xz2 - sy2), 0 >>,
           << Round(b, xy2 - sz2), Round(b, Round(b, 1 - xx2) - zz2),
              Round(b, yz2 + sx2), 0 >>,
           << Round(b, xz2 + sy2), Round(b, yz2 - sx2),
              Round(b, Round(b, 1 - xx2) - yy2), 0 >>,
           << 0, 0, 0, 1 >> >>

\* lhs * rhs: column j is lhs[0]*rhs[j][0] + lhs[1]*rhs[j][1] + ... summed
\* left to right.
Matrix4_mul(b, lhs, rhs) ==
    [j \in 1..4 |->
        [i \in 1..4 |->
            inner_sum(b, [k \in 1..4 |-> Round(b, lhs[k][i] * rhs[j][k])], 4)]]

\* ------------------------------------------------------------- quat, mat
\* Quat, Mat4 and the vec3!/quat! macros are defined outside vec.rs and
\* trs.rs; they are modelled from the specification.

\* quat!(): the identity rotation
quat_identity == [x |-> 0, y |-> 0, z |-> 0, s |-> 1]

\* vec3!(): the zero vector
vec3_empty == Vec3_zero

\* vec3!(v): every component v
vec3_splat(v) == Vec3_from_f32(v)

\* dvec3!()
dvec3_empty == DVec3_zero

\* dvec3!(v)
dvec3_splat(v) == DVec3_from_f64(v)

\* Mat4::from([[f32; 4]; 4]) / DMat4::from([[f64; 4]; 4]): the element of
\* column i, row j (from 0) of the array becomes the entry [i, j].
Mat4_from(m) == [i \in 0..3, j \in 0..3 |-> m[i + 1][j + 1]]

\* A tier of the quaternion applies the tier to every component.
Quat_relative_eq(b, self, other, epsilon, max_relative) ==
    \A f \in {"x", "y", "z", "s"} :
        scalar_relative_eq(b, self[f], other[f], epsilon, max_relative)

Quat_ulps_eq(b, self, other, epsilon, max_ulps) ==
    \A f \in {"x", "y", "z", "s"} :
        scalar_ulps_eq(b, self[f], other[f], epsilon, max_ulps)

Quat_abs_diff_eq(b, self, other, tolerances) ==
    IF Len(tolerances) = 1
    THEN Returned(\A f \in {"x", "y", "z", "s"} :
                     Abs(Round(b, self[f] - other[f])) <= tolerances[1])
    ELSE Rejected("abs_diff_eq takes (other, epsilon)")

\* --------------------------------------------------------------- Trs, DTrs

Trs_new(t, r, s) == [t |-> t, r |-> r, s |-> s]

\* An identity whose scale is left at the zero vector.
Trs_identity_ZeroScale == [t |-> vec3_empty, r |-> quat_identity, s |-> vec3_empty]

Trs_identity == [t |-> vec3_empty, r |-> quat_identity, s |-> vec3_splat(1)]

\* The product taken as scale * rotation * translation.
Trs_matrix_Reversed(self) ==
    LET t == Matrix4_from_translation(self.t)
        r == Matrix4_from_quaternion("f32", self.r.s, self.r.x, self.r.y, self.r.z)
        s == Matrix4_from_nonuniform_scale(self.s.x, self.s.y, self.s.z)
    IN  Mat4_from(Matrix4_mul("f32", Matrix4_mul("f32", s, r), t))

Trs_matrix(self) ==
    LET t == Matrix4_from_translation(self.t)
        r == Matrix4_from_quaternion("f32", self.r.s, self.r.x, self.r.y, self.r.z)
        s == Matrix4_from_nonuniform_scale(self.s.x, self.s.y, self.s.z)
    IN  Mat4_from(Matrix4_mul("f32", Matrix4_mul("f32", t, r), s))

Trs_relative_eq(self, other, epsilon, max_relative) ==
    /\ relative_eq("Vec3", self.t, other.t, epsilon, max_relative)
    /\ Quat_relative_eq("f32", self.r, other.r, epsilon, max_relative)
    /\ relative_eq("Vec3", self.s, other.s, epsilon, max_relative)

Trs_ulps_eq(self, other, epsilon, max_ulps) ==
    /\ ulps_eq("Vec3", self.t, other.t, epsilon, max_ulps)
    /\ Quat_ulps_eq("f32", self.r, other.r, epsilon, max_ulps)
    /\ ulps_eq("Vec3", self.s, other.s, epsilon, max_ulps)

\* The names abs_diff_eq(&self, other, epsilon) binds.
abs_diff_eq_params == {"self", "other", "epsilon"}

\* The tolerances the body hands to each field's abs_diff_eq.
abs_diff_eq_passed == <<"epsilon", "max_ulps">>

\* Trs::abs_diff_eq: each field is called with (epsilon, max_ulps).  A name
\* that is no parameter has no value, and the call has none either.
Trs_abs_diff_eq(self, other, epsilon) ==
    IF \A i \in 1..Len(abs_diff_eq_passed) :
           abs_diff_eq_passed[i] \in abs_diff_eq_params
    THEN LET tol == [i \in 1..Len(abs_diff_eq_passed) |->
                        CASE abs_diff_eq_passed[i] = "epsilon" -> epsilon]
             t == vector_abs_diff_eq("Vec3", self.t, other.t, tol)
             r == Quat_abs_diff_eq("f32", self.r, other.r, tol)
             s == vector_abs_diff_eq("Vec3", self.s, other.s, tol)
         IN  IF t.ok /\ r.ok /\ s.ok
             THEN Returned(t.value /\ r.value /\ s.value)
             ELSE Rejected("a field's abs_diff_eq call is rejected")
    ELSE Rejected("max_ulps is not a name in scope")

DTrs_new(t, r, s) == [t |-> t, r |-> r, s |-> s]

DTrs_identity == [t |-> dvec3_empty, r |-> quat_identity, s |-> dvec3_splat(1)]

DTrs_matrix(self) ==
    LET t == Matrix4_from_translation(self.t)
        r == Matrix4_from_quaternion("f64", self.r.s, self.r.x, self.r.y, self.r.z)
        s == Matrix4_from_nonuniform_scale(self.s.x, self.s.y, self.s.z)
    IN  Mat4_from(Matrix4_mul("f64", Matrix4_mul("f64", t, r), s))

DTrs_relative_eq(self, other, epsilon, max_relative) ==
    /\ relative_eq("DVec3", self.t, other.t, epsilon, max_relative)
    /\ Quat_relative_eq("f64", self.r, other.r, epsilon, max_relative)
    /\ relative_eq("DVec3", self.s, other.s, epsilon, max_relative)

DTrs_ulps_eq(self, other, epsilon, max_ulps) ==
    /\ ulps_eq("DVec3", self.t, other.t, epsilon, max_ulps)
    /\ Quat_ulps_eq("f64", self.r, other.r, epsilon, max_ulps)
    /\ ulps_eq("DVec3", self.s, other.s, epsilon, max_ulps)

\* DTrs::abs_diff_eq: the same body as Trs::abs_diff_eq.
DTrs_abs_diff_eq(self, other, epsilon) ==
    IF \A i \in 1..Len(abs_diff_eq_passed) :
           abs_diff_eq_passed[i] \in abs_diff_eq_params
    THEN LET tol == [i \in 1..Len(abs_diff_eq_passed) |->
                        CASE abs_diff_eq_passed[i] = "epsilon" -> epsilon]
             t == vector_abs_diff_eq("DVec3", self.t, other.t, tol)
             r == Quat_abs_diff_eq("f64", self.r, other.r, tol)
             s == vector_abs_diff_eq("DVec3", self.s, other.s, tol)
         IN  IF t.ok /\ r.ok /\ s.ok
             THEN Returned(t.value /\ r.value /\ s.value)
             ELSE Rejected("a field's abs_diff_eq call is rejected")
    ELSE Rejected("max_ulps is not a name in scope")

\* ------------------------------------------------------------ input samples

\* Whether the integer x has a significand of at most 24 bits (is an f32).
FitsF32(x) ==
    LET ax == Abs(x)
    IN  ax < Pow2(24) \/ ax % Pow2(Log2(ax) - 23) = 0

\* Whether x is a value of base type b (every integer of the model is an f64).
Fits(b, x) == b = "f64" \/ FitsF32(x)

Small == (-MaxSmall) .. MaxSmall

\* Values around 2^24, where the f32 grid is coarser than the integers.
Edge == {Pow2(24) + k : k \in 0..3}

\* The scalar inputs of base type b.
Scalars(b) == {x \in Small \union {5} \union Edge : Fits(b, x)}

FieldSet(t) == {Fields(t)[i] : i \in 1..Dim(t)}

\* The vectors of type t over the scalar set S.
VecsOver(t, S) == [FieldSet(t) -> S]

Vecs(t) == VecsOver(t, Scalars(Base(t)))

Arrays(t) == [1..Dim(t) -> Scalars(Base(t))]

\* ------------------------------------------------------------------- state

Init ==
    /\ op = "ready"
    /\ ty = "none"
    /\ args = << >>
    /\ out = << >>

\* The call of operation `name` of type t with arguments a returns r.
Call(name, t, a, r) ==
    /\ op' = name
    /\ ty' = t
    /\ args' = a
    /\ out' = r

\* ------------------------------------------------ conversions, constructors

\* let a: $array = v.into(); let back: $self = a.into();
IntoFrom(t) ==
    /\ op = "ready"
    /\ \E v \in Vecs(t) :
         Call("into_from", t, <<v>>,
              [array |-> into_array(t, v),
               back  |-> from_array(t, into_array(t, v))])

\* let v: $self = a.into(); let back: $array = v.into();
FromInto(t) ==
    /\ op = "ready"
    /\ \E a \in Arrays(t) :
         Call("from_into", t, <<a>>,
              [vec  |-> from_array(t, a),
               back |-> into_array(t, from_array(t, a))])

NewZero(t) ==
    /\ op = "ready"
    /\ Call("zero", t, << >>, Zero(t))

BroadcastF32(t) ==
    /\ op = "ready"
    /\ \E s \in Scalars("f32") : Call("from_f32", t, <<s>>, From_f32(t, s))

BroadcastF64(t) ==
    /\ op = "ready"
    /\ \E s \in Scalars("f64") : Call("from_f64", t, <<s>>, From_f64(t, s))

\* $self::from(sibling)
Cast(t) ==
    /\ op = "ready"
    /\ \E v \in Vecs(Sibling(t)) : Call("cast", t, <<v>>, From_sibling(t, v))

\* single -> double -> single
WidenNarrow(t) ==
    /\ op = "ready"
    /\ Base(t) = "f32"
    /\ \E v \in Vecs(t) :
         Call("widen_narrow", t, <<v>>,
              From_sibling(t, From_sibling(Sibling(t), v)))

LiftVec2(t) ==
    /\ op = "ready"
    /\ Dim(t) = 3
    /\ \E v \in [{"x", "y"} -> Scalars(Base(t))], a \in Scalars(Base(t)) :
         Call("lift_2_1", t, <<v, a>>,
              IF t = "Vec3" THEN Vec3_from_Vec2_f32(v, a)
                            ELSE DVec3_from_DVec2_f64(v, a))

LiftVec2Twice(t) ==
    /\ op = "ready"
    /\ Dim(t) = 4
    /\ \E v \in [{"x", "y"} -> Scalars(Base(t))],
          a \in Scalars(Base(t)), b \in Scalars(Base(t)) :
         Call("lift_2_2", t, <<v, a, b>>,
              IF t = "Vec4" THEN Vec4_from_Vec2_f32_f32(v, a, b)
                            ELSE DVec4_from_DVec2_f64_f64(v, a, b))

LiftVec3(t) ==
    /\ op = "ready"
    /\ Dim(t) = 4
    /\ \E v \in [{"x", "y", "z"} -> Scalars(Base(t))], a \in Scalars(Base(t)) :
         Call("lift_3_1", t, <<v, a>>,
              IF t = "Vec4" THEN Vec4_from_Vec3_f32(v, a)
                            ELSE DVec4_from_DVec3_f64(v, a))

NextConv ==
    \E t \in TYPES :
        \/ IntoFrom(t)
        \/ FromInto(t)
        \/ NewZero(t)
        \/ BroadcastF32(t)
        \/ BroadcastF64(t)
        \/ Cast(t)
        \/ WidenNarrow(t)
        \/ LiftVec2(t)
        \/ LiftVec2Twice(t)
        \/ LiftVec3(t)

SpecConv == Init /\ [][NextConv]_vars

\* ---------------------------------------------------------------- arithmetic

\* Addends: small integers and 2^24, the last integer before the f32 grid
\* widens to 2.
Addends == {-1, 0, 1, Pow2(24)}

\* a + b and b + a
Add(t) ==
    /\ op = "ready"
    /\ \E a \in VecsOver(t, Addends), b \in VecsOver(t, Addends \ {0}) :
         Call("add", t, <<a, b>>,
              [sum |-> add(t, a, b), rev |-> add(t, b, a)])

\* (a + b) + c and a + (b + c); c is a broadcast vector
AddAssoc(t) ==
    /\ op = "ready"
    /\ \E a \in VecsOver(t, Addends), b \in VecsOver(t, {1, Pow2(24)}),
          s \in Addends :
         LET c == From_f32(t, s)
         IN  Call("add_assoc", t, <<a, b, c>>,
                  [left  |-> add(t, add(t, a, b), c),
                   right |-> add(t, a, add(t, b, c))])

\* Factors large enough for a product of two of them to pass 2^24.
Factors == {Pow2(12) + 1, Pow2(13) - 1}

Vec3Types == {"Vec3", "DVec3"}

\* c = a.cross(b), c.dot(a), c.dot(b); one operand is small, so that every
\* exact intermediate value stays below 2^31.
Cross(t) ==
    /\ op = "ready"
    /\ t \in Vec3Types
    /\ \E a \in VecsOver(t, Small \union Factors),
          b \in VecsOver(t, Small \union Factors) :
         /\ a \in VecsOver(t, Small) \/ b \in VecsOver(t, Small)
         /\ LET c == cross(t, a, b)
            IN  Call("cross", t, <<a, b>>,
                     [c |-> c, ca |-> dot(t, c, a), cb |-> dot(t, c, b)])

NextArith ==
    \E t \in TYPES :
        \/ Add(t)
        \/ AddAssoc(t)
        \/ Cross(t)

SpecArith == Init /\ [][NextArith]_vars

\* --------------------------------------------------------------- transforms

TrsTypes == {"Trs", "DTrs"}

TrsBase(tt) == IF tt = "Trs" THEN "f32" ELSE "f64"

TrsVec(tt) == IF tt = "Trs" THEN "Vec3" ELSE "DVec3"

\* Quaternions with components in -1 .. 1, at most two of them non-zero;
\* the code does not normalise them.
Quats == {q \in [{"x", "y", "z", "s"} -> -1 .. 1] :
            Cardinality({f \in DOMAIN q : q[f] # 0}) <= 2}

\* Uniform, non-uniform, mirrored and degenerate scales.
Scales == {Vec3_new(1, 1, 1), Vec3_new(2, 1, -1), Vec3_new(0, 2, 1),
           Vec3_new(1, 2, 3)}

Identity(tt) ==
    /\ op = "ready"
    /\ LET i == IF tt = "Trs" THEN Trs_identity ELSE DTrs_identity
       IN  Call("identity", tt, << >>,
                [trs |-> i,
                 m   |-> IF tt = "Trs" THEN Trs_matrix(i) ELSE DTrs_matrix(i)])

Matrix(tt) ==
    /\ op = "ready"
    /\ \E t \in VecsOver("Vec3", Small), r \in Quats, s \in Scales :
         IF tt = "Trs"
         THEN Call("matrix", tt, <<Trs_new(t, r, s)>>,
                   Trs_matrix(Trs_new(t, r, s)))
         ELSE Call("matrix", tt, <<DTrs_new(t, r, s)>>,
                   DTrs_matrix(DTrs_new(t, r, s)))

\* Values a tolerance of 1 or one representable step tells apart.
EqScalars == {0, 1, Pow2(24), Pow2(24) + 2}

Tolerances == {0, 1}

\* The transforms compared: one component of each part varies; the first
\* operand takes the same value in all three.
EqTrs(x) == Trs_new(Vec3_new(x[1], 0, 0),
                    [x |-> x[2], y |-> 0, z |-> 0, s |-> 1],
                    Vec3_new(1, 1, x[3]))

RelativeEq(tt) ==
    /\ op = "ready"
    /\ \E a \in {[i \in 1..3 |-> x] : x \in EqScalars}, b \in [1..3 -> EqScalars],
          epsilon \in Tolerances, max_relative \in Tolerances :
         Call("relative_eq", tt, <<EqTrs(a), EqTrs(b), epsilon, max_relative>>,
              Returned(IF tt = "Trs"
                       THEN Trs_relative_eq(EqTrs(a), EqTrs(b), epsilon, max_relative)
                       ELSE DTrs_relative_eq(EqTrs(a), EqTrs(b), epsilon, max_relative)))

UlpsEq(tt) ==
    /\ op = "ready"
    /\ \E a \in {[i \in 1..3 |-> x] : x \in EqScalars}, b \in [1..3 -> EqScalars],
          epsilon \in Tolerances, max_ulps \in Tolerances :
         Call("ulps_eq", tt, <<EqTrs(a), EqTrs(b), epsilon, max_ulps>>,
              Returned(IF tt = "Trs"
                       THEN Trs_ulps_eq(EqTrs(a), EqTrs(b), epsilon, max_ulps)
                       ELSE DTrs_ulps_eq(EqTrs(a), EqTrs(b), epsilon, max_ulps)))

AbsDiffEq(tt) ==
    /\ op = "ready"
    /\ \E a \in {[i \in 1..3 |-> x] : x \in EqScalars}, b \in [1..3 -> EqScalars],
          epsilon \in Tolerances :
         Call("abs_diff_eq", tt, <<EqTrs(a), EqTrs(b), epsilon>>,
              IF tt = "Trs"
              THEN Trs_abs_diff_eq(EqTrs(a), EqTrs(b), epsilon)
              ELSE DTrs_abs_diff_eq(EqTrs(a), EqTrs(b), epsilon))

VectorAbsDiffEq(tt) ==
    /\ op = "ready"
    /\ \E t \in TYPES :
         /\ Base(t) = TrsBase(tt)
         /\ \E a \in VecsOver(t, {0, 1}), b \in VecsOver(t, {0, 1}),
               epsilon \in Tolerances :
              Call("abs_diff_eq", t, <<a, b, epsilon>>,
                   vector_abs_diff_eq(t, a, b, <<epsilon>>))

NextTrs ==
    \E tt \in TrsTypes :
        \/ Identity(tt)
        \/ Matrix(tt)
        \/ RelativeEq(tt)
        \/ UlpsEq(tt)
        \/ AbsDiffEq(tt)
        \/ VectorAbsDiffEq(tt)

SpecTrs == Init /\ [][NextTrs]_vars

\* ------------------------------------------------------------------ claims

\* r is s converted to base type b: a value of b, none nearer to s, and on a
\* tie the one whose significand is even (the f32 grid step is 2 in the
\* binade [2^24, 2^25) the samples reach).
Converted(b, s, r) ==
    /\ Fits(b, r)
    /\ \A y \in (s - 2) .. (s + 2) :
          Fits(b, y) =>
              /\ Abs(r - s) <= Abs(y - s)
              /\ (Abs(r - s) = Abs(y - s) /\ y # r) => (r \div 2) % 2 = 0

\* C1: for every vector type and vector v, the array made from v holds v's
\* components in the order x, y, z, w and the vector made from that array is
\* v; for every array a, the vector made from a holds a's elements in order
\* and the array made from that vector is a.
C1_ArrayRoundTrip ==
    /\ op = "into_from" =>
          LET v == args[1]
          IN  /\ out.back = v
              /\ DOMAIN out.array = 1 .. Dim(ty)
              /\ out.array[1] = v.x
              /\ out.array[2] = v.y
              /\ Dim(ty) >= 3 => out.array[3] = v.z
              /\ Dim(ty) >= 4 => out.array[4] = v.w
    /\ op = "from_into" =>
          LET a == args[1]
          IN  /\ out.back = a
              /\ DOMAIN out.vec = FieldSet(ty)
              /\ out.vec.x = a[1]
              /\ out.vec.y = a[2]
              /\ Dim(ty) >= 3 => out.vec.z = a[3]
              /\ Dim(ty) >= 4 => out.vec.w = a[4]

\* A four-component vector with distinct first and last components went
\* through the array and came back.
C1_Witness ==
    /\ op = "into_from"
    /\ ty = "DVec4"
    /\ args[1].x # args[1].w
    /\ args[1].y # args[1].z
    /\ out.back = args[1]

\* C8: the vector made from a scalar s of either precision has every
\* component equal to s converted to the vector's precision; Vec3::from(5.0)
\* is Vec3::new(5.0, 5.0, 5.0); zero() is the broadcast of 0.
C8_Broadcast ==
    /\ op \in {"from_f32", "from_f64"} =>
          /\ DOMAIN out = FieldSet(ty)
          /\ \A f \in FieldSet(ty) : Converted(Base(ty), args[1], out[f])
    /\ (op \in {"from_f32", "from_f64"} /\ ty = "Vec3" /\ args[1] = 5) =>
          out = Vec3_new(5, 5, 5)
    /\ op = "zero" =>
          /\ out = From_f32(ty, 0)
          /\ out = From_f64(ty, 0)
          /\ DOMAIN out = FieldSet(ty)
          /\ \A f \in FieldSet(ty) : out[f] = 0

\* A double-precision scalar that is no f32 was broadcast into a
\* single-precision vector.
C8_Witness ==
    /\ op = "from_f64"
    /\ ty = "Vec3"
    /\ ~ FitsF32(args[1])
    /\ out.z # args[1]

\* C9: a lift keeps the lower-dimension vector's components in order as the
\* leading components and appends the trailing scalars in argument order.
C9_Lift ==
    /\ op = "lift_2_1" =>
          out = [x |-> args[1].x, y |-> args[1].y, z |-> args[2]]
    /\ op = "lift_2_2" =>
          out = [x |-> args[1].x, y |-> args[1].y, z |-> args[2], w |-> args[3]]
    /\ op = "lift_3_1" =>
          out = [x |-> args[1].x, y |-> args[1].y, z |-> args[1].z,
                 w |-> args[2]]

\* A 2D vector and two distinct scalars, all different, were lifted to 4D.
C9_Witness ==
    /\ op = "lift_2_2"
    /\ ty = "Vec4"
    /\ args[1].x # args[1].y
    /\ args[2] # args[3]
    /\ args[2] # args[1].y
    /\ out.w = args[3]

\* C10: the cross-precision conversion converts each component in place, and
\* a single-precision vector widened and narrowed again differs from the
\* original by at most the f32 epsilon 2^-23 in every component.
C10_CrossPrecision ==
    /\ op = "cast" =>
          /\ DOMAIN out = FieldSet(ty)
          /\ \A f \in FieldSet(ty) : Converted(Base(ty), args[1][f], out[f])
    /\ op = "widen_narrow" =>
          /\ DOMAIN out = FieldSet(ty)
          /\ \A f \in FieldSet(ty) : Abs(out[f] - args[1][f]) * Pow2(23) <= 1

\* A single-precision vector with components above 2^24 made the round trip.
C10_Witness ==
    /\ op = "widen_narrow"
    /\ ty = "Vec3"
    /\ args[1].x > Pow2(24)
    /\ args[1].y < 0
    /\ out = args[1]

\* The components of a, b and c sum without rounding in base type b0.
SumsExact(b0, a, b, c) ==
    \A f \in DOMAIN a :
        /\ Fits(b0, a[f] + b[f])
        /\ Fits(b0, b[f] + c[f])
        /\ Fits(b0, a[f] + b[f] + c[f])

\* C6 as stated: for integer-valued representable components, addition is
\* commutative and associative.
C6_Original ==
    /\ op = "add" => out.sum = out.rev
    /\ op = "add_assoc" => out.left = out.right

\* C6 as amended: addition is componentwise (each component is the sum of
\* the operands' components, converted to the vector's precision) and
\* commutative, and it is associative, with (a+b)+c the exact sum, whenever
\* the partial sums a+b, b+c and a+b+c are exactly representable.
C6_AddLaws ==
    /\ op = "add" =>
          /\ out.sum = out.rev
          /\ DOMAIN out.sum = FieldSet(ty)
          /\ \A f \in FieldSet(ty) :
                Converted(Base(ty), args[1][f] + args[2][f], out.sum[f])
    /\ (op = "add_assoc" /\ SumsExact(Base(ty), args[1], args[2], args[3])) =>
          /\ out.left = out.right
          /\ \A f \in FieldSet(ty) :
                out.left[f] = args[1][f] + args[2][f] + args[3][f]

\* Three vectors with a component near 2^24 were added both ways without
\* rounding.
C6_Witness ==
    /\ op = "add_assoc"
    /\ ty = "Vec4"
    /\ SumsExact(Base(ty), args[1], args[2], args[3])
    /\ args[1].x = -1
    /\ args[2].x = Pow2(24)
    /\ args[2].y = 1
    /\ args[3].x = -1
    /\ out.left.x = Pow2(24) - 2
    /\ out.left = out.right

\* The cross product of a and b in exact integer arithmetic.
ExactCross(a, b) ==
    [x |-> a.y * b.z - a.z * b.y,
     y |-> a.z * b.x - a.x * b.z,
     z |-> a.x * b.y - a.y * b.x]

\* Every exact intermediate value of a.cross(b), c.dot(a) and c.dot(b) is a
\* value of base type b0, so that no operation rounds.
CrossExact(b0, a, b) ==
    LET c == ExactCross(a, b)
    IN  \A v \in {a.y * b.z, a.z * b.y, a.z * b.x, a.x * b.z, a.x * b.y,
                  a.y * b.x, c.x, c.y, c.z,
                  c.x * a.x, c.y * a.y, c.z * a.z, c.x * a.x + c.y * a.y,
                  c.x * b.x, c.y * b.y, c.z * b.z, c.x * b.x + c.y * b.y} :
            Fits(b0, v)

\* C7 as stated: cross(a, b) is the standard cross product and its dot
\* product with a and with b is exactly zero for integer-valued components.
C7_Original ==
    op = "cross" =>
        /\ out.c = ExactCross(args[1], args[2])
        /\ out.ca = 0
        /\ out.cb = 0

\* C7 as amended: the same, for integer-valued components small enough that
\* every intermediate product and sum is exactly representable.
C7_CrossOrthogonal ==
    (op = "cross" /\ CrossExact(Base(ty), args[1], args[2])) =>
        /\ out.c = ExactCross(args[1], args[2])
        /\ out.ca = 0
        /\ out.cb = 0

\* Two independent single-precision vectors, one with large components, were
\* crossed without rounding and the product is not zero.
C7_Witness ==
    /\ op = "cross"
    /\ ty = "Vec3"
    /\ CrossExact(Base(ty), args[1], args[2])
    /\ args[2].x > Pow2(12)
    /\ out.c.y # 0
    /\ out.c.z # 0
    /\ out.ca = 0
    /\ out.cb = 0

\* The rotation of the quaternion q applied to v in exact integer arithmetic:
\* v + 2 q.s (u x v) + 2 u x (u x v), with u the imaginary part of q.
Rotated(q, v) ==
    LET u   == [x |-> q.x, y |-> q.y, z |-> q.z]
        uv  == ExactCross(u, v)
        uuv == ExactCross(u, uv)
    IN  [f \in {"x", "y", "z"} |-> v[f] + 2 * q.s * uv[f] + 2 * uuv[f]]

\* The matrix m applied to the point p (a column vector with w = 1).
Applied(m, p) ==
    [j \in 0..3 |-> m[0, j] * p.x + m[1, j] * p.y + m[2, j] * p.z + m[3, j]]

\* The origin, the three unit points and a point off the axes.
Points == {Vec3_new(0, 0, 0), Vec3_new(1, 0, 0), Vec3_new(0, 1, 0),
           Vec3_new(0, 0, 1), Vec3_new(1, 2, 3)}

\* C2: matrix() is Translation(t) * Rotation(r) * Scale(s): it takes every
\* point p to t + R(s * p), the point scaled first, then rotated by the
\* quaternion (r.s; r.x, r.y, r.z), then translated.
C2_MatrixOrder ==
    op = "matrix" =>
        LET self == args[1]
        IN  \A p \in Points :
                LET sp == Vec3_new(self.s.x * p.x, self.s.y * p.y, self.s.z * p.z)
                    rp == Rotated(self.r, sp)
                IN  Applied(out, p) = [j \in 0..3 |->
                        CASE j = 0 -> self.t.x + rp.x
                          [] j = 1 -> self.t.y + rp.y
                          [] j = 2 -> self.t.z + rp.z
                          [] j = 3 -> 1]

\* A transform whose translation, rotation and non-uniform scale do not
\* commute was turned into a matrix.
C2_Witness ==
    /\ op = "matrix"
    /\ ty = "Trs"
    /\ args[1].t = Vec3_new(1, 0, -1)
    /\ args[1].r = [x |-> 0, y |-> 0, z |-> 1, s |-> 1]
    /\ args[1].s = Vec3_new(1, 2, 3)
    /\ out[3, 0] = 1
    /\ out[0, 1] = 2
    /\ out[1, 0] = -4

\* C3: identity() is translation zero, rotation the identity quaternion and
\* scale (1, 1, 1), and its matrix() is the 4x4 identity matrix.
C3_Identity ==
    op = "identity" =>
        /\ out.trs.t = [x |-> 0, y |-> 0, z |-> 0]
        /\ out.trs.r = [x |-> 0, y |-> 0, z |-> 0, s |-> 1]
        /\ out.trs.s = [x |-> 1, y |-> 1, z |-> 1]
        /\ out.m = [i \in 0..3, j \in 0..3 |-> IF i = j THEN 1 ELSE 0]

\* The single-precision identity was built and turned into a matrix.
C3_Witness ==
    /\ op = "identity"
    /\ ty = "Trs"
    /\ out.trs.s.z = 1
    /\ out.m[2, 2] = 1
    /\ out.m[3, 2] = 0

\* Every component pair of the vectors a and b differs by at most epsilon.
VecWithin(a, b, epsilon) == \A f \in DOMAIN a : Abs(a[f] - b[f]) <= epsilon

\* C4: each tier of Trs / DTrs returns true exactly when the same tier, with
\* the same tolerances, is true of the translations, of the rotations and of
\* the scales.
C4_TiersPerField ==
    LET a == args[1]
        b == args[2]
    IN  /\ (op = "relative_eq" /\ ty \in TrsTypes) =>
              /\ out.ok
              /\ out.value =
                    (/\ relative_eq(TrsVec(ty), a.t, b.t, args[3], args[4])
                     /\ Quat_relative_eq(TrsBase(ty), a.r, b.r, args[3], args[4])
                     /\ relative_eq(TrsVec(ty), a.s, b.s, args[3], args[4]))
        /\ (op = "ulps_eq" /\ ty \in TrsTypes) =>
              /\ out.ok
              /\ out.value =
                    (/\ ulps_eq(TrsVec(ty), a.t, b.t, args[3], args[4])
                     /\ Quat_ulps_eq(TrsBase(ty), a.r, b.r, args[3], args[4])
                     /\ ulps_eq(TrsVec(ty), a.s, b.s, args[3], args[4]))
        /\ (op = "abs_diff_eq" /\ ty \in TrsTypes) =>
              /\ out.ok
              /\ out.value =
                    (/\ VecWithin(a.t, b.t, args[3])
                     /\ VecWithin(a.r, b.r, args[3])
                     /\ VecWithin(a.s, b.s, args[3]))

\* C5: abs_diff_eq of every vector type and of Trs / DTrs takes two values
\* and an epsilon and returns true exactly when every component pair differs
\* by at most epsilon.
C5_AbsDiffEq ==
    op = "abs_diff_eq" =>
        /\ out.ok
        /\ out.value =
              IF ty \in TrsTypes
              THEN /\ VecWithin(args[1].t, args[2].t, args[3])
                   /\ VecWithin(args[1].r, args[2].r, args[3])
                   /\ VecWithin(args[1].s, args[2].s, args[3])
              ELSE VecWithin(args[1], args[2], args[3])

====
